---- MODULE Spec2Model ----
(***************************************************************************)
(* DirichletProblem (src/nnpde/problems.py): a Dirichlet problem instance  *)
(* that computes its ground-truth solution with the Jacobi method on      *)
(* instantiation and its approximate solution with the H method on demand. *)
(*                                                                         *)
(* A tensor of shape [1, 1, n, n] is a sequence of n rows of n values; its *)
(* shape is its DOMAIN.  Floating-point values are integers.  Python's     *)
(* None and an argument that is not passed are the empty tuple <<>>; a     *)
(* value v that is passed is <<v>>.  The attributes of `self` are a        *)
(* function from attribute names to values: reading an attribute that was  *)
(* never assigned raises AttributeError.                                   *)
(***************************************************************************)
EXTENDS Integers, Sequences, FiniteSets, TLC

VARIABLES
    inst,          \* "unconstructed" | "constructed" | "failed" (the constructor raised)
    self,          \* the attributes of the instance the caller holds
    kwargs,        \* the keyword arguments the constructor was called with
    err,           \* the exception the last call raised, or "none"
    ret,           \* <<value>> returned by the last compute_solution call, or <<>>
    geomCalls,     \* calls made to geometries.*_geometry
    samplerCalls,  \* calls made to misc.normal_distributed_tensor, with what each returned
    jacobiCalls,   \* argument tuples of the calls made to im.jacobi_method
    hNets,         \* the operator passed to each call made to im.H_method
    hArgs,         \* <<argument tuple>> of the last call made to im.H_method
    netCalls,      \* number of invocations of the operators passed as `net`
    hTrace         \* after each iteration of the last H_method call, the cells
                   \* of self.B_idx where the field is not self.B

vars == <<inst, self, kwargs, err, ret, geomCalls, samplerCalls, jacobiCalls,
          hNets, hArgs, netCalls, hTrace>>

-----------------------------------------------------------------------------
(* Bounds of the model *)

\* the grid size a caller passes explicitly, and the size of the arrays it builds
MaxN == 3
\* the largest iteration count a caller passes explicitly
MaxK == 1
\* compute_solution calls made on one instance
MaxCalls == 2

(* Defaults of DirichletProblem.__init__ *)
K_DEFAULT == 20
K_GROUND_TRUTH_DEFAULT == 1000
N_DEFAULT == 16
DOMAIN_TYPE_DEFAULT == "square"

None == <<>>

-----------------------------------------------------------------------------
(* Fields *)

ConstField(n, v) == [i \in 1..n |-> [j \in 1..n |-> v]]

\* torch.zeros(1, 1, N, N)
Zeros(n) == ConstField(n, 0)

ParityField(n) == [i \in 1..n |-> [j \in 1..n |-> (i + j) % 2]]

\* the values misc.normal_distributed_tensor(N, ...) may return
Samples(n) == {ConstField(n, 0), ParityField(n)}

Perimeter(n, i, j) == i = 1 \/ i = n \/ j = 1 \/ j = n

Notch(n, i, j) == i > n \div 2 /\ j > n \div 2

\* geometries.square_geometry(N): (mask, boundary values)
square_geometry(n) ==
    <<[i \in 1..n |-> [j \in 1..n |-> Perimeter(n, i, j)]],
      [i \in 1..n |-> [j \in 1..n |-> IF Perimeter(n, i, j) THEN 1 ELSE 0]]>>

\* geometries.l_shaped_geometry(N): (mask, boundary values)
l_shaped_geometry(n) ==
    <<[i \in 1..n |-> [j \in 1..n |-> Perimeter(n, i, j) \/ Notch(n, i, j)]],
      [i \in 1..n |-> [j \in 1..n |->
          IF Perimeter(n, i, j) \/ Notch(n, i, j) THEN 1 ELSE 0]]>>

\* boundary (masked) cells take the boundary values, the others keep u
ResetBoundary(B_idx, B, u) ==
    [i \in DOMAIN u |-> [j \in DOMAIN u[i] |-> IF B_idx[i][j] THEN B[i][j] ELSE u[i][j]]]

Ok(v) == [ok |-> TRUE, val |-> v, err |-> "none"]
Raise(e) == [ok |-> FALSE, val |-> None, err |-> e]

-----------------------------------------------------------------------------
(* im.jacobi_method *)

\* a neighbour outside the grid counts as 0
At(u, i, j) == IF i \in DOMAIN u /\ j \in DOMAIN u[i] THEN u[i][j] ELSE 0

\* the average of the four neighbours less the right-hand side (unit spacing)
Stencil(f, u, i, j) ==
    (At(u, i - 1, j) + At(u, i + 1, j) + At(u, i, j - 1) + At(u, i, j + 1)
     - f[i][j]) \div 4

JacobiStep(B_idx, B, f, u) ==
    ResetBoundary(B_idx, B, [i \in DOMAIN u |-> [j \in DOMAIN u[i] |-> Stencil(f, u, i, j)]])

\* k applications of JacobiStep.  The step is a function of u alone, so once
\* it returns u (or returns to u after two applications) the remaining
\* applications are known without being carried out.
RECURSIVE JacobiIterate(_, _, _, _, _)
JacobiIterate(B_idx, B, f, u, k) ==
    IF k = 0 THEN u
    ELSE LET v == JacobiStep(B_idx, B, f, u) IN
         IF v = u THEN u
         ELSE LET w == JacobiStep(B_idx, B, f, v) IN
              IF w = u THEN (IF k % 2 = 0 THEN u ELSE v)
              ELSE JacobiIterate(B_idx, B, f, v, k - 1)

jacobi_method(B_idx, B, f, initial_u, k) ==
    IF k = 0 THEN Ok(initial_u)
    ELSE IF DOMAIN B_idx # DOMAIN initial_u \/ DOMAIN B # DOMAIN initial_u
            \/ DOMAIN f # DOMAIN initial_u
         THEN Raise("ShapeMismatch")
         ELSE Ok(JacobiIterate(B_idx, B, f, initial_u, k))

-----------------------------------------------------------------------------
(* im.H_method and the operators passed to it *)

\* "zero" returns the zero field whatever it is given; "picky" returns its
\* input, and raises if the input's first cell is 1; "wrong_shape" returns a
\* field one row and one column larger than its input
Nets == {"zero", "picky", "wrong_shape"}

Side(u) == Cardinality(DOMAIN u)

\* one invocation net(u)
NetApply(net, u) ==
    CASE net = "zero" -> Ok(Zeros(Side(u)))
      [] net = "picky" -> IF u[1][1] = 1 THEN Raise("OperatorError") ELSE Ok(u)
      [] net = "wrong_shape" -> Ok(Zeros(Side(u) + 1))

HDone(u, calls, trace) ==
    [ok |-> TRUE, val |-> u, err |-> "none", calls |-> calls, trace |-> trace]

HRaise(e, calls, trace) ==
    [ok |-> FALSE, val |-> None, err |-> e, calls |-> calls, trace |-> trace]

RECURSIVE HIterate(_, _, _, _, _, _, _)
HIterate(net, B_idx, B, u, k, calls, trace) ==
    IF k = 0 THEN HDone(u, calls, trace)
    ELSE LET r == NetApply(net, u) IN
         IF ~r.ok THEN HRaise(r.err, calls + 1, trace)
         ELSE IF DOMAIN r.val # DOMAIN u
              THEN HRaise("OperatorContractViolation", calls + 1, trace)
         ELSE IF DOMAIN r.val # DOMAIN B_idx \/ DOMAIN r.val # DOMAIN B
              THEN HRaise("ShapeMismatch", calls + 1, trace)
         ELSE LET v == ResetBoundary(B_idx, B, r.val) IN
              HIterate(net, B_idx, B, v, k - 1, calls + 1, Append(trace, v))

H_method(net, B_idx, B, f, initial_u, k) ==
    HIterate(net, B_idx, B, initial_u, k, 0, <<>>)

-----------------------------------------------------------------------------
(* DirichletProblem.__init__ *)

NoAttrs == [a \in {} |-> 0]

SetAttr(s, a, v) == (a :> v) @@ s

\* str.lower() on the selectors a caller passes
Lower(s) ==
    CASE s = "SQUARE" -> "square"
      [] s = "L_Shape" -> "l_shape"
      [] OTHER -> s

\* the parameters as bound by the signature: a keyword that is not passed
\* takes its default
Bind(kw) ==
    [B_idx |-> kw.B_idx,
     B |-> kw.B,
     f |-> kw.f,
     k |-> IF kw.k = <<>> THEN K_DEFAULT ELSE kw.k[1],
     k_ground_truth |->
         IF kw.k_ground_truth = <<>> THEN K_GROUND_TRUTH_DEFAULT ELSE kw.k_ground_truth[1],
     initial_ground_truth |-> kw.initial_ground_truth,
     initial_u |-> kw.initial_u,
     domain_type |-> IF kw.domain_type = <<>> THEN DOMAIN_TYPE_DEFAULT ELSE kw.domain_type[1],
     N |-> IF kw.N = <<>> THEN N_DEFAULT ELSE kw.N[1]]

\* InitGeometry with an unknown selector falling back to the square geometry
InitGeometry_FallBackToSquare(p) ==
    IF p.B_idx = None
    THEN IF Lower(p.domain_type) = "l_shape"
         THEN [err |-> "none",
               attrs |-> SetAttr(SetAttr(NoAttrs, "B_idx", l_shaped_geometry(p.N)[1]),
                                 "B", l_shaped_geometry(p.N)[2]),
               calls |-> <<<<"l_shaped_geometry", p.N>>>>]
         ELSE [err |-> "none",
               attrs |-> SetAttr(SetAttr(NoAttrs, "B_idx", square_geometry(p.N)[1]),
                                 "B", square_geometry(p.N)[2]),
               calls |-> <<<<"square_geometry", p.N>>>>]
    ELSE [err |-> "none", attrs |-> NoAttrs, calls |-> <<>>]

\* lines 58-65: [err, attrs, calls]
InitGeometry(p) ==
    IF p.B_idx = None
    THEN IF Lower(p.domain_type) = "square"
         THEN [err |-> "none",
               attrs |-> SetAttr(SetAttr(NoAttrs, "B_idx", square_geometry(p.N)[1]),
                                 "B", square_geometry(p.N)[2]),
               calls |-> <<<<"square_geometry", p.N>>>>]
         ELSE IF Lower(p.domain_type) = "l_shape"
         THEN [err |-> "none",
               attrs |-> SetAttr(SetAttr(NoAttrs, "B_idx", l_shaped_geometry(p.N)[1]),
                                 "B", l_shaped_geometry(p.N)[2]),
               calls |-> <<<<"l_shaped_geometry", p.N>>>>]
         ELSE [err |-> "ValueError", attrs |-> NoAttrs, calls |-> <<>>]
    ELSE [err |-> "none", attrs |-> NoAttrs, calls |-> <<>>]

\* lines 68-71
InitF(p) == IF p.f = None THEN Zeros(p.N) ELSE p.f[1]

\* lines 74-77: sg is what the sampler returns if it is called
InitGroundTruthField(p, sg) ==
    IF p.initial_ground_truth = None THEN sg ELSE p.initial_ground_truth[1]

GroundTruthSamplerCalls(p, sg) ==
    IF p.initial_ground_truth = None
    THEN <<[N |-> p.N, requires_grad |-> FALSE, out |-> sg]>>
    ELSE <<>>

\* InitU reusing the sample drawn for the ground-truth computation
InitU_SharedSample(p, sg, su) ==
    IF p.initial_u = None
    THEN (IF p.initial_ground_truth = None THEN sg ELSE su)
    ELSE p.initial_u[1]

\* lines 83-86: su is what the sampler returns if it is called
InitU(p, sg, su) ==
    IF p.initial_u = None THEN su ELSE p.initial_u[1]

USamplerCalls(p, su) ==
    IF p.initial_u = None
    THEN <<[N |-> p.N, requires_grad |-> TRUE, out |-> su]>>
    ELSE <<>>

\* lines 67-88: the attributes assigned after the geometry
InitFields(s, p, sg, su) ==
    SetAttr(SetAttr(SetAttr(SetAttr(SetAttr(SetAttr(s,
        "f", InitF(p)),
        "initial_ground_truth", InitGroundTruthField(p, sg)),
        "k_ground_truth", p.k_ground_truth),
        "_ground_truth", None),
        "initial_u", InitU(p, sg, su)),
        "k", p.k)

\* GroundTruthAttrs with the approximate iteration count passed to the Jacobi method
GroundTruthAttrs_WrongCount == <<"B_idx", "B", "f", "initial_ground_truth", "k">>

\* lines 91-92: the attributes read for the call of im.jacobi_method
GroundTruthAttrs == <<"B_idx", "B", "f", "initial_ground_truth", "k_ground_truth">>

GroundTruthArgs(s) == [i \in 1..5 |-> s[GroundTruthAttrs[i]]]

\* the whole constructor: [err, self, geom, sampler, jacobi]
Init__(kw, sg, su) ==
    LET p == Bind(kw)
        g == InitGeometry(p)
    IN  IF g.err # "none"
        THEN [err |-> g.err, self |-> NoAttrs, geom |-> g.calls,
              sampler |-> <<>>, jacobi |-> <<>>]
        ELSE LET s == InitFields(g.attrs, p, sg, su)
                 sampled == GroundTruthSamplerCalls(p, sg) \o USamplerCalls(p, su)
             IN  IF \E i \in 1..5 : GroundTruthAttrs[i] \notin DOMAIN s
                 THEN [err |-> "AttributeError", self |-> NoAttrs, geom |-> g.calls,
                       sampler |-> sampled, jacobi |-> <<>>]
                 ELSE LET a == GroundTruthArgs(s)
                          r == jacobi_method(a[1], a[2], a[3], a[4], a[5])
                      IN  IF r.ok
                          THEN [err |-> "none",
                                self |-> SetAttr(s, "ground_truth", r.val),
                                geom |-> g.calls, sampler |-> sampled, jacobi |-> <<a>>]
                          ELSE [err |-> r.err, self |-> NoAttrs, geom |-> g.calls,
                                sampler |-> sampled, jacobi |-> <<a>>]

-----------------------------------------------------------------------------
(* What callers pass *)

Opt(S) == {None} \cup {<<v>> : v \in S}

\* the arrays a caller builds are MaxN x MaxN
ArgMasks == {[i \in 1..MaxN |-> [j \in 1..MaxN |-> Perimeter(MaxN, i, j)]]}
ArgBoundaryValues ==
    {[i \in 1..MaxN |-> [j \in 1..MaxN |-> IF Perimeter(MaxN, i, j) THEN 2 ELSE 0]]}
ArgF == {ConstField(MaxN, 1)}
ArgInitial == {ConstField(MaxN, 2)}
ArgK == {0, MaxK}
ArgKGroundTruth == {MaxK}
ArgN == {MaxN}
ArgDomainTypes == {"square", "l_shape", "L_Shape", "circle"}

Kwargs ==
    [B_idx : Opt(ArgMasks), B : Opt(ArgBoundaryValues), f : Opt(ArgF),
     k : Opt(ArgK), k_ground_truth : Opt(ArgKGroundTruth),
     initial_ground_truth : Opt(ArgInitial), initial_u : Opt(ArgInitial),
     domain_type : Opt(ArgDomainTypes), N : Opt(ArgN)]

\* what the sampler can return for a parameter (one value if it is not called)
SamplesFor(kw, name) ==
    IF kw[name] = None THEN Samples(Bind(kw).N) ELSE {Zeros(1)}

-----------------------------------------------------------------------------
(* The state machine *)

Init ==
    /\ inst = "unconstructed"
    /\ self = NoAttrs
    /\ kwargs = None
    /\ err = "none"
    /\ ret = None
    /\ geomCalls = <<>>
    /\ samplerCalls = <<>>
    /\ jacobiCalls = <<>>
    /\ hNets = <<>>
    /\ hArgs = None
    /\ netCalls = 0
    /\ hTrace = <<>>

\* DirichletProblem(**kw)
Construct ==
    /\ inst = "unconstructed"
    /\ \E kw \in Kwargs :
         \E sg \in SamplesFor(kw, "initial_ground_truth"),
            su \in SamplesFor(kw, "initial_u") :
             \E o \in {Init__(kw, sg, su)} :
             /\ inst' = IF o.err = "none" THEN "constructed" ELSE "failed"
             /\ self' = o.self
             /\ err' = o.err
             /\ geomCalls' = o.geom
             /\ samplerCalls' = o.sampler
             /\ jacobiCalls' = o.jacobi
             /\ kwargs' = <<kw>>
    /\ UNCHANGED <<ret, hNets, hArgs, netCalls, hTrace>>

\* SolutionArgs with the right-hand side and the boundary values exchanged
SolutionArgs_Exchanged(s, net) == <<net, s.B_idx, s.f, s.B, s.initial_u, s.k>>

\* lines 97-98: the arguments of the call of im.H_method
SolutionArgs(s, net) == <<net, s.B_idx, s.B, s.f, s.initial_u, s.k>>

\* AfterSolution keeping a solution that is already cached
AfterSolution_Memoized(s, r) ==
    IF r.ok /\ "u" \notin DOMAIN s THEN SetAttr(s, "u", r.val) ELSE s

\* AfterSolution with the result also written over the initial field
AfterSolution_InPlace(s, r) ==
    IF r.ok THEN SetAttr(SetAttr(s, "u", r.val), "initial_u", r.val) ELSE s

\* AfterSolution that drops the cached solution when H_method raises
AfterSolution_Invalidating(s, r) ==
    IF r.ok THEN SetAttr(s, "u", r.val) ELSE [a \in DOMAIN s \ {"u"} |-> s[a]]

\* AfterSolution that clears the cached solution when H_method raises
AfterSolution_Clearing(s, r) ==
    IF r.ok THEN SetAttr(s, "u", r.val) ELSE SetAttr(s, "u", Zeros(1))

\* lines 97-99: self.u is assigned, and returned, only if H_method returns
AfterSolution(s, r) == IF r.ok THEN SetAttr(s, "u", r.val) ELSE s

\* the cells of the instance's mask where u is not the instance's boundary value
BoundaryMisses(s, u) ==
    {c \in (DOMAIN s.B_idx) \X (DOMAIN s.B_idx) :
        s.B_idx[c[1]][c[2]] /\ At(u, c[1], c[2]) # s.B[c[1]][c[2]]}

\* problem.compute_solution(net)
ComputeSolution(net) ==
    /\ inst = "constructed"
    /\ Len(hNets) < MaxCalls
    /\ \E a \in {SolutionArgs(self, net)} :
       \E r \in {H_method(a[1], a[2], a[3], a[4], a[5], a[6])} :
           /\ hNets' = Append(hNets, a[1])
           /\ hArgs' = <<a>>
           /\ netCalls' = netCalls + r.calls
           /\ hTrace' = [n \in 1..Len(r.trace) |-> BoundaryMisses(self, r.trace[n])]
           /\ self' = AfterSolution(self, r)
           /\ ret' = IF r.ok THEN <<AfterSolution(self, r).u>> ELSE None
           /\ err' = r.err
    /\ UNCHANGED <<inst, kwargs, geomCalls, samplerCalls, jacobiCalls>>

Next ==
    \/ Construct
    \/ \E net \in Nets : ComputeSolution(net)

Spec == Init /\ [][Next]_vars

-----------------------------------------------------------------------------
(* Properties *)

Called == inst # "unconstructed"
Constructed == inst = "constructed"
Kw == kwargs[1]

\* C1: when both a boundary mask and boundary values are passed (with N the
\* size of the arrays passed), the constructor completes and the mask and
\* values passed are the ones stored, the ones passed to the Jacobi method and
\* the ones passed to the H method by every later compute_solution call.
C1_ExplicitGeometryIsStoredAndUsed ==
    (Called /\ Kw.B_idx # None /\ Kw.B # None /\ Kw.N # None)
    => /\ Constructed
       /\ {"B_idx", "B"} \subseteq DOMAIN self
       /\ self.B_idx = Kw.B_idx[1]
       /\ self.B = Kw.B[1]
       /\ geomCalls = <<>>
       /\ Len(jacobiCalls) = 1
       /\ jacobiCalls[1][1] = Kw.B_idx[1]
       /\ jacobiCalls[1][2] = Kw.B[1]
       /\ (hArgs # None => hArgs[1][2] = Kw.B_idx[1] /\ hArgs[1][3] = Kw.B[1])

\* C8: when a boundary mask or boundary values are passed (either one), no
\* geometry is generated and the array passed is not replaced by a generated one.
C8_EitherArraySkipsGeneration ==
    (Called /\ (Kw.B_idx # None \/ Kw.B # None))
    => /\ geomCalls = <<>>
       /\ (Constructed /\ Kw.B_idx # None) => self.B_idx = Kw.B_idx[1]
       /\ (Constructed /\ Kw.B # None) => self.B = Kw.B[1]

\* the selector the constructor was called with, "square" if none was passed
DomainTypeOf(kw) == IF kw.domain_type = None THEN "square" ELSE kw.domain_type[1]

ConstructionRejected ==
    /\ inst = "failed"
    /\ err = "ValueError"
    /\ self = NoAttrs
    /\ geomCalls = <<>>
    /\ samplerCalls = <<>>
    /\ jacobiCalls = <<>>

\* C2 as claimed: a selector other than exactly "square" or "l_shape" makes
\* the constructor raise ValueError, with no instance, no mask or boundary
\* values and no call of the Jacobi method (stated for the calls that pass no
\* mask, the ones in which the selector is read).
C2_AnyOtherSpellingIsRejected ==
    (Called /\ Kw.B_idx = None /\ DomainTypeOf(Kw) \notin {"square", "l_shape"})
    => ConstructionRejected

\* C2 as amended: when no mask is passed and the selector in lower case is
\* neither "square" nor "l_shape", the constructor raises ValueError, with no
\* instance, no mask or boundary values, no sample drawn and no call of the
\* Jacobi method, whatever the other arguments are.
C2_UnknownSelectorIsRejected ==
    (Called /\ Kw.B_idx = None /\ Lower(DomainTypeOf(Kw)) \notin {"square", "l_shape"})
    => ConstructionRejected

C2_Witness ==
    /\ Called
    /\ Kw.B_idx = None
    /\ Kw.domain_type = <<"circle">>
    /\ Kw.f # None /\ Kw.k # None /\ Kw.N # None /\ Kw.initial_u # None
    /\ ConstructionRejected

AllAttrs ==
    {"B_idx", "B", "f", "initial_ground_truth", "k_ground_truth", "_ground_truth",
     "initial_u", "k", "ground_truth"}

\* C3: the Jacobi method is called at most once; an instance that exists was
\* constructed by calling it exactly once, with the stored mask, boundary
\* values, right-hand side, initial ground-truth field and ground-truth
\* iteration count, every configuration attribute being set, and holds the
\* result of that call as its ground truth.
C3_GroundTruthComputedOnceAtConstruction ==
    /\ Len(jacobiCalls) <= 1
    /\ Constructed =>
         /\ AllAttrs \subseteq DOMAIN self
         /\ Len(jacobiCalls) = 1
         /\ jacobiCalls[1] = <<self.B_idx, self.B, self.f, self.initial_ground_truth,
                               self.k_ground_truth>>
         /\ LET r == jacobi_method(self.B_idx, self.B, self.f, self.initial_ground_truth,
                                   self.k_ground_truth)
            IN  r.ok /\ self.ground_truth = r.val

C3_Witness ==
    /\ Constructed
    /\ Kw.k_ground_truth = None /\ Kw.k # None /\ Kw.N = None
    /\ self.k_ground_truth # self.k
    /\ self.ground_truth # self.initial_ground_truth
    /\ self.ground_truth # self.initial_u

LastNet == hNets[Len(hNets)]

\* C4: a compute_solution call passes the H method the stored mask, boundary
\* values, right-hand side, initial approximate field and approximate
\* iteration count together with its own operator; when the H method returns,
\* its result is both the value returned and the solution cached, whatever
\* was cached before.
C4_SolutionIsTheHMethodResultOfTheCall ==
    (Constructed /\ hNets # <<>>) =>
        LET r == H_method(LastNet, self.B_idx, self.B, self.f, self.initial_u, self.k)
        IN  /\ hArgs = <<<<LastNet, self.B_idx, self.B, self.f, self.initial_u, self.k>>>>
            /\ (err = "none") = r.ok
            /\ (err = "none") =>
                   ("u" \in DOMAIN self /\ self.u = r.val /\ ret = <<self.u>>)

C4_Witness ==
    /\ Constructed
    /\ Len(hNets) = 2
    /\ err = "none"
    /\ H_method(hNets[1], self.B_idx, self.B, self.f, self.initial_u, self.k).ok
    /\ H_method(hNets[1], self.B_idx, self.B, self.f, self.initial_u, self.k).val # self.u

\* C5: once the instance is constructed, a step leaves it constructed, calls
\* neither the Jacobi method, a geometry nor the sampler, and changes no
\* attribute of the instance other than the cached solution u.
C5_OnlyTheCachedSolutionChanges ==
    [][Constructed =>
          /\ inst' = inst
          /\ jacobiCalls' = jacobiCalls
          /\ geomCalls' = geomCalls
          /\ samplerCalls' = samplerCalls
          /\ DOMAIN self' \ {"u"} = DOMAIN self \ {"u"}
          /\ \A a \in DOMAIN self \ {"u"} : self'[a] = self[a]]_vars

C5_Witness ==
    /\ Constructed
    /\ Len(hNets) = 2
    /\ "u" \in DOMAIN self
    /\ self.u # self.initial_u
    /\ err = "OperatorContractViolation"

\* C6: construction yields an instance with a ground truth and no solution;
\* from then on the instance stays constructed and keeps its ground truth; it
\* has no solution until a compute_solution call returns, and once it has one
\* it has one after every later call.
C6_TwoLifecycleStates ==
    [][/\ (~Constructed /\ inst' = "constructed") =>
              ("ground_truth" \in DOMAIN self' /\ "u" \notin DOMAIN self')
       /\ Constructed =>
              /\ inst' = "constructed"
              /\ "ground_truth" \in DOMAIN self'
              /\ self'.ground_truth = self.ground_truth
              /\ "u" \in DOMAIN self => "u" \in DOMAIN self'
              /\ "u" \notin DOMAIN self => ("u" \in DOMAIN self' <=> err' = "none")]_vars

C6_Witness ==
    /\ Constructed
    /\ Len(hNets) = 2
    /\ "u" \in DOMAIN self
    /\ "ground_truth" \in DOMAIN self
    /\ err = "OperatorError"

\* C7: during a compute_solution call the field equals the boundary values of
\* the instance at every masked cell after each iteration of the H method,
\* and a call with an iteration count of at least 1 that returns has made that
\* many iterations and returns and caches a field equal to the boundary values
\* at every masked cell.
C7_BoundaryValuesHoldAfterEveryIteration ==
    (Constructed /\ hNets # <<>>) =>
        /\ \A n \in DOMAIN hTrace : hTrace[n] = {}
        /\ (err = "none" /\ self.k >= 1) =>
               /\ Len(hTrace) = self.k
               /\ DOMAIN self.u = DOMAIN self.B_idx
               /\ \A i \in DOMAIN self.B_idx : \A j \in DOMAIN self.B_idx[i] :
                      self.B_idx[i][j] => self.u[i][j] = self.B[i][j]
               /\ ret = <<self.u>>

C7_Witness ==
    /\ Constructed
    /\ hNets = <<"zero">>
    /\ err = "none"
    /\ Len(hTrace) = 20
    /\ self.B_idx[1][1] /\ self.u[1][1] = 1
    /\ ~self.B_idx[2][2] /\ self.u[2][2] = 0

\* the grid size the constructor was called with, 16 if none was passed
NOf(kw) == IF kw.N = None THEN 16 ELSE kw.N[1]

\* C9: in a constructed instance the right-hand side, the two initial fields
\* and the two iteration counts are the values passed, and where none was
\* passed the right-hand side is the zero N x N field, the approximate count
\* 20, the ground-truth count 1000, and each initial field what a sampler
\* call of its own returned (the sampler is called once for each initial
\* field that is not passed, and not otherwise); the geometry is the one of
\* the selector passed ("square" if none) for the N passed (16 if none).
C9_DefaultsOnlyForWhatIsNotPassed ==
    Constructed =>
        /\ self.f = IF Kw.f = None
                    THEN [i \in 1..NOf(Kw) |-> [j \in 1..NOf(Kw) |-> 0]]
                    ELSE Kw.f[1]
        /\ self.k = IF Kw.k = None THEN 20 ELSE Kw.k[1]
        /\ self.k_ground_truth =
               IF Kw.k_ground_truth = None THEN 1000 ELSE Kw.k_ground_truth[1]
        /\ geomCalls =
               <<<<IF Lower(DomainTypeOf(Kw)) = "square"
                   THEN "square_geometry" ELSE "l_shaped_geometry", NOf(Kw)>>>>
        /\ Len(samplerCalls) = (IF Kw.initial_ground_truth = None THEN 1 ELSE 0)
                                + (IF Kw.initial_u = None THEN 1 ELSE 0)
        /\ \A n \in DOMAIN samplerCalls : samplerCalls[n].N = NOf(Kw)
        /\ IF Kw.initial_ground_truth = None
           THEN /\ self.initial_ground_truth = samplerCalls[1].out
                /\ ~samplerCalls[1].requires_grad
           ELSE self.initial_ground_truth = Kw.initial_ground_truth[1]
        /\ IF Kw.initial_u = None
           THEN /\ self.initial_u = samplerCalls[Len(samplerCalls)].out
                /\ samplerCalls[Len(samplerCalls)].requires_grad
           ELSE self.initial_u = Kw.initial_u[1]

C9_Witness ==
    /\ Constructed
    /\ Kw.f = None /\ Kw.k = None /\ Kw.k_ground_truth = None /\ Kw.N = None
    /\ Kw.domain_type = None
    /\ Kw.initial_ground_truth = None /\ Kw.initial_u = None
    /\ Len(samplerCalls) = 2
    /\ self.initial_u # self.initial_ground_truth
    /\ self.B_idx = square_geometry(16)[1]

\* C10: a compute_solution call that raises leaves every attribute of the
\* instance as it was, the cached solution included (absent if it was absent),
\* returns nothing, is one call of the H method, and invokes the operator no
\* more after the invocation that failed.
C10_FailedCallLeavesTheInstanceAsItWas ==
    [][(Constructed /\ hNets' # hNets /\ err' # "none") =>
          /\ self' = self
          /\ ret' = None
          /\ Len(hNets') = Len(hNets) + 1
          /\ jacobiCalls' = jacobiCalls
          /\ netCalls' = netCalls + Len(hTrace') + 1
          /\ Len(hTrace') < self.k]_vars

C10_Witness ==
    /\ Constructed
    /\ Len(hNets) = 1
    /\ err = "OperatorError"
    /\ "u" \notin DOMAIN self
    /\ Len(hTrace) = 1
    /\ netCalls = 2

====
